---- MODULE Spec2Model ----
(***************************************************************************)
(* Chat-turn orchestration of jennifer_v1: the /api/chat handler in its    *)
(* two hosting modes (the Express route of server/server.ts with its own   *)
(* helpers, and the serverless handler that imports server/logic.ts), the  *)
(* upstream calls it makes (chat completion, voice-cloning TTS, direct     *)
(* TTS with two credentials), the chat screen that sends the requests, and *)
(* the transcript conversion convertHindiToHinglish of server/logic.ts.    *)
(*                                                                         *)
(* Strings that the code concatenates are sequences of tokens (a template  *)
(* literal is the concatenation of its pieces); an optional field is a     *)
(* sequence of length 0 (absent/undefined) or 1 (present).                 *)
(***************************************************************************)
EXTENDS Integers, Sequences, FiniteSets, TLC

VARIABLES
    host,                 \* "express" (server.ts route) or "serverless" (handler + logic.ts)
    env,                  \* process configuration: which ElevenLabs credentials are set
    caller,               \* "http": a raw HTTP client; "browser": the chat screen;
                          \* "results": the transcript conversion of the results view;
                          \* "concurrent": two HTTP clients whose requests overlap;
                          \* "screen": the chat screen alone, with its record buttons;
                          \* "form": the assessment form;
                          \* "resultsPage": the transcript toggle of the results page
    req,                  \* the request being handled: <<>> or <<params>>
    pc,                   \* position of the handler
    aiText,               \* the text to synthesize and to return
    calls,                \* upstream calls of this request, in order, with their outcomes
    res,                  \* responses sent for this request, in order
    conversationHistory,  \* chat screen: React state conversationHistory
    session,              \* chat screen: sessionStorage 'jennifer_conversation' (<<>> or <<history>>)
    pending,              \* chat screen: the awaited getChatResponse call (<<>> or <<closure>>)
    sends,                \* number of sendMessage calls made so far
    fullTranscript,       \* convertHindiToHinglish: its argument (<<>> before the call)
    hpc,                  \* convertHindiToHinglish: "idle", "fetch", "returned" or "thrown"
    hinglishCalls,        \* convertHindiToHinglish: the fetches it made, with their outcomes
    hinglishResult,       \* convertHindiToHinglish: the string returned, or the message thrown
    handlers,             \* overlapping requests: the locals of each running handler
    testMp3,              \* the debug file generateTTS of server.ts writes (<<>> or <<audio>>)
    mounted,              \* chat screen: the component is mounted
    isLoading,            \* chat screen: React state isLoading
    isRecording,          \* chat screen: React state isRecording
    timers,               \* chat screen: callbacks stopRecording has scheduled, with what they captured
    inflight,             \* chat screen: getChatResponse calls awaited, with the locals of their callers
    instance,             \* chat screen: how many times the component has mounted
    route,                \* the page shown: "none", "assessment" (the form), "chat",
                          \* "results", or "home" (after Start Over)
    assessment,           \* sessionStorage 'jennifer_assessment', parsed
    storeCalls,           \* the calls of storeAssessmentAnswer made so far: per question, the latest
    currentQuestion,      \* assessment form: React state currentQuestion (index from 0)
    selectedAnswer,       \* assessment form: React state selectedAnswer
    otherText,            \* assessment form: React state otherText, as characters
    i18nLanguage,         \* i18n.language
    jenniferLanguage,     \* sessionStorage 'jennifer_language' (<<>> or <<name>>)
    displayMode,          \* results page: React state displayMode
    hinglishTranscript,   \* results page: React state hinglishTranscript (<<>> for null)
    isTranslating,        \* results page: React state isTranslating
    conversion            \* results page: the latest call of convertTranscriptToHinglish:
                          \* "none", "running", "done" or "failed"

vars == <<host, env, caller, req, pc, aiText, calls, res,
          conversationHistory, session, pending, sends,
          fullTranscript, hpc, hinglishCalls, hinglishResult,
          handlers, testMp3, mounted, isLoading, isRecording, timers, inflight, instance,
          route, assessment, storeCalls, currentQuestion, selectedAnswer, otherText,
          i18nLanguage, jenniferLanguage,
          displayMode, hinglishTranscript, isTranslating, conversion>>

serverVars == <<req, pc, aiText, calls, res>>
clientVars == <<conversationHistory, session, pending, sends>>
hinglishVars == <<fullTranscript, hpc, hinglishCalls, hinglishResult>>
overlapVars == <<handlers, testMp3>>
screenVars == <<mounted, isLoading, isRecording, timers, inflight, instance>>
formVars == <<route, assessment, storeCalls, currentQuestion, selectedAnswer, otherText,
              i18nLanguage, jenniferLanguage>>
pageVars == <<displayMode, hinglishTranscript, isTranslating, conversion>>

-----------------------------------------------------------------------------
(* Bounds *)

MaxHistory == 6     \* longest ConversationHistory a raw HTTP request carries
MaxStored == 5      \* longest conversation the chat screen loads from sessionStorage
MaxSends == 1       \* sendMessage calls per run of the chat screen
MaxChars == 3       \* longest transcript given to convertHindiToHinglish
MaxRecordings == 2  \* recordings the user of the chat screen stops in one run
MaxMounts == 2      \* times the chat screen mounts in one run
MaxQuestions == 3   \* questions of the assessment form (the first ones and the last)
MaxOptions == 2     \* options of a question the user clicks, besides "Other"
MaxTyped == 1       \* characters typed into the free-text input at a time

-----------------------------------------------------------------------------
(* JavaScript values *)

None == <<>>
Some(v) == <<v>>
IsSome(o) == o # <<>>

\* x || d for an optional string: undefined and '' are falsy
OrElse(o, d) == IF o = <<>> \/ o[1] = "" THEN d ELSE o[1]

\* String.prototype.toLowerCase on the language names the model uses
toLowerCase(s) ==
    CASE s = "English" -> "english"
      [] s = "Spanish" -> "spanish"
      [] s = "SPANISH" -> "spanish"
      [] s = "French"  -> "french"
      [] s = "Hindi"   -> "hindi"
      [] s = "HINDI"   -> "hindi"
      [] s = "Klingon" -> "klingon"
      [] OTHER -> s

\* Array.prototype.slice(-k): the last min(Len(s), k) elements, in order
SliceLast(s, k) ==
    IF Len(s) <= k THEN s ELSE SubSeq(s, Len(s) - k + 1, Len(s))

\* Array.prototype.join over pieces that are token sequences
RECURSIVE Join(_, _)
Join(pieces, sep) ==
    IF pieces = <<>> THEN <<>>
    ELSE IF Len(pieces) = 1 THEN pieces[1]
    ELSE pieces[1] \o sep \o Join(Tail(pieces), sep)

-----------------------------------------------------------------------------
(* Request inputs *)

Hosts == {"express", "serverless"}

\* language values a request may carry (the field may also be absent)
LanguageInputs == {"English", "SPANISH", "French", "Hindi", "Klingon", "constructor"}

\* language names the chat screen sends (LanguageContext currentLanguage)
ClientLanguages == {"English", "Spanish", "French", "Hindi"}

Answer(id, q, a) == [questionId |-> id, question |-> q, answer |-> a]

AnswerLists ==
    { <<>>,
      <<Answer(1, "What language do you want to proceed in?", "English")>>,
      <<Answer(1, "What language do you want to proceed in?", "English"),
        Answer(2, "How are you feeling today?", "anxious")>>,
      <<Answer(1, "What language do you want to proceed in?", "English"),
        Answer(2, "How are you feeling today?", "")>> }

StoredAssessment ==
    <<Answer(1, "What language do you want to proceed in?", "English"),
      Answer(2, "How are you feeling today?", "anxious")>>

Transcripts == {"", "I could not sleep"}

\* the i-th turn of a conversation: turns are told apart by their content
Turn(i) == [role |-> IF i % 2 = 1 THEN "assistant" ELSE "user",
            content |-> <<ToString(i)>>,
            audioData |-> "c3RvcmVk"]

History(n) == [i \in 1..n |-> Turn(i)]

\* the fields of a history turn the server reads
RoleContent(m) == [role |-> m.role, content |-> m.content]

Requests ==
    [ method : {"POST"},
      body : {TRUE},
      FirstMessage : {None, Some(TRUE), Some(FALSE)},
      assessment_question_answers : {None} \cup {Some(a) : a \in AnswerLists},
      language : {None} \cup {Some(l) : l \in LanguageInputs},
      Transcript : {None} \cup {Some(t) : t \in Transcripts},
      ConversationHistory : {None} \cup {Some(History(n)) : n \in 0..MaxHistory} ]

\* a request the serverless platform hands to the handler whatever its method or body
NoBody(m) ==
    [ method |-> m, body |-> FALSE, FirstMessage |-> None,
      assessment_question_answers |-> None, language |-> None,
      Transcript |-> None, ConversationHistory |-> None ]

-----------------------------------------------------------------------------
(* Upstream services: what one fetch can produce *)

ErrBodies == {"quota_exceeded", "invalid_api_key"}

Throw == [kind |-> "throw", body |-> "fetch failed"]
Status(b) == [kind |-> "error", body |-> b]
Ok(b) == [kind |-> "ok", body |-> b]

\* chat completion: the content of choices[0].message, "" when there is none
OpenAIOutcomes ==
    {Throw} \cup {Status(e) : e \in ErrBodies} \cup {Ok(""), Ok("I hear you")}

\* voice-cloning TTS: generations[0].audio (base64), "" when it is missing
HumeOutcomes ==
    {Throw} \cup {Status(e) : e \in ErrBodies} \cup {Ok(""), Ok("SHVtZQ==")}

\* direct TTS: the binary body of the response ("" is a body of zero bytes)
ElevenOutcomes ==
    {Throw} \cup {Status(e) : e \in ErrBodies} \cup {Ok(""), Ok("ID3")}

\* Buffer.from(arrayBuffer).toString('base64')
Base64(buf) == IF buf = "" THEN "" ELSE "SUQz"

\* what callEleven returns without fetching when the credential is not set
Undefined == [kind |-> "undefined", body |-> ""]

-----------------------------------------------------------------------------
(* Pure helpers of the server *)

\* a JavaScript string as a token sequence: '' is the empty sequence
Str(s) == IF s = "" THEN <<>> ELSE <<s>>

\* mutant: the feeling is read from the first answer of the list
FeelingOfFirstAnswer(params) ==
    LET a == params.assessment_question_answers IN
    IF a = None THEN "neutral"
    ELSE IF Len(a[1]) < 1 THEN "neutral"
    ELSE IF a[1][1].answer = "" THEN "neutral"
    ELSE a[1][1].answer

\* params.assessment_question_answers?.[1]?.answer || 'neutral'
Feeling(params) ==
    LET a == params.assessment_question_answers IN
    IF a = None THEN "neutral"
    ELSE IF Len(a[1]) < 2 THEN "neutral"
    ELSE IF a[1][2].answer = "" THEN "neutral"
    ELSE a[1][2].answer

\* the greeting templates: server.ts keeps its own table, the handler uses logic.ts
Templates(h) ==
    [ english |-> <<"Hi, I am Jennifer your AI Therapist. I see you're feeling ",
                    ". Can you tell me more about that?">>,
      spanish |-> <<"Hola, soy Jennifer, tu Terapeuta de IA. Veo que te sientes ",
                    ". Puedes contarme mas sobre eso?">>,
      french  |-> <<"Bonjour, je suis Jennifer, votre Therapeute IA. Je vois que vous vous sentez ",
                    ". Pouvez-vous m'en dire plus a ce sujet?">>,
      hindi   |-> IF h = "express"
                  THEN <<"Namaste, main Jennifer hoon, aapki AI therapist. Main dekh rahi hoon ki aap ",
                         " mehsoos kar rahe hain. Kya aap mujhe iske baare mein aur bata sakte hain?">>
                  ELSE <<"Namaste, main Jennifer hoon, aapki AI therapist. Aapne kaha ki aapko ",
                         " mehsoos ho raha hai. Kya aap mujhe iske baare mein aur bata sakte hain?">> ]

\* keys every object literal inherits from Object.prototype: table[key] is
\* truthy for them although the table does not define them
InheritedKeys == {"constructor"}

\* templates['constructor']: the function Object, which is not a string
ObjectFunction == <<"function Object() { [native code] }">>

\* prompts['constructor'].roleIntro and the like: undefined, printed by the template literal
UndefinedContent ==
    [ roleIntro |-> "undefined", style |-> "undefined",
      instructionsIntro |-> "undefined", importantNote |-> "undefined" ]

\* templates[language.toLowerCase()] || templates.english
firstMessageTemplate(h, language, feeling) ==
    LET lower == toLowerCase(language)
        t == IF lower \in DOMAIN Templates(h) THEN Templates(h)[lower]
             ELSE Templates(h).english
    IN IF lower \notin DOMAIN Templates(h) /\ lower \in InheritedKeys
       THEN ObjectFunction
       ELSE <<t[1], feeling, t[2]>>

\* the per-language prompt table; logic.ts adds the STRICT RULES to roleIntro
Prompts(h) ==
    LET entry(l) ==
          [ roleIntro |-> IF h = "express" THEN l \o ".roleIntro"
                          ELSE l \o ".roleIntro+strictRules",
            style |-> l \o ".style",
            instructionsIntro |-> l \o ".instructionsIntro",
            importantNote |-> l \o ".importantNote" ]
    IN [ english |-> entry("english"), spanish |-> entry("spanish"),
         french |-> entry("french"), hindi |-> entry("hindi") ]

\* mutant: the line gives the answer before the question
AssessmentLineAnswerFirst(a) == <<"- ", a.answer, ": ", a.question>>

\* assessments.map(a => `- ${a.question}: ${a.answer}`)
AssessmentLine(a) == <<"- ", a.question, ": ", a.answer>>

buildSystemPrompt(h, language, assessments) ==
    LET lower == toLowerCase(language)
        content == IF lower \in DOMAIN Prompts(h) THEN Prompts(h)[lower]
                   ELSE IF lower \in InheritedKeys THEN UndefinedContent
                   ELSE Prompts(h).english
        assessmentsText ==
            Join([i \in 1..Len(assessments) |-> AssessmentLine(assessments[i])], <<"\n">>)
    IN <<content.roleIntro, "\n\n", content.style, "\n\n",
         content.instructionsIntro, "\n">> \o assessmentsText
         \o <<"\n\n", content.importantNote>>

\* params.Transcript || 'Please continue our conversation.'
UserPrompt(params) == OrElse(params.Transcript, "Please continue our conversation.")

\* the messages array callOpenAIChat posts
Messages(h, systemPrompt, userPrompt, history) ==
    LET system == <<[role |-> "system", content |-> systemPrompt]>>
        turns == IF history = None THEN <<>>
                 ELSE [i \in 1..Len(history[1]) |-> RoleContent(history[1][i])]
        user == <<[role |-> "user", content |-> <<userPrompt>>]>>
    IN IF h = "express" THEN system \o turns \o user
       ELSE system \o turns

\* data.choices?.[0]?.message?.content || fallback
ReplyText(h, content) ==
    IF content # "" THEN <<content>>
    ELSE IF h = "express" THEN <<"...">> ELSE <<>>

\* the summary the insights handler returns: what callOpenAIChat returns
InsightsSummary(h, content) == ReplyText(h, content)

\* the language generateTTS is called with
TTSLanguage(h, params) ==
    IF h = "express" THEN toLowerCase(params.language[1])
    ELSE toLowerCase(OrElse(params.language, "english"))

\* ['english', 'spanish'].includes(language): the voice-cloning branch of generateTTS
UsesHume(h, language) ==
    h = "express" /\ language \in {"english", "spanish"}

\* mutant: the retry only covers a missing response, not a non-success status
TriesSecondaryOnlyWhenUndefined(h, resp) ==
    h = "express" /\ resp.kind = "undefined"

\* if (!resp || !resp.ok) resp = await callEleven(ELEVENLABS2_API_KEY)
TriesSecondary(h, resp) ==
    h = "express" /\ resp.kind # "ok"

\* fs.writeFileSync('test.mp3', ...) inside generateTTS
WritesDebugFile(h) == h = "express"

-----------------------------------------------------------------------------
(* The /api/chat handler *)

params == req[1]

\* one upstream call and what came back; a callEleven that returns undefined
\* without fetching (credential not set) is logged with outcome "undefined"
Call(api, key, payload, o) ==
    [api |-> api, key |-> key, payload |-> payload, outcome |-> o.kind, body |-> o.body]

\* mutant: the handler never takes the first-message branch
IsFirstMessageNever(p) == FALSE

\* if (params.FirstMessage): the first-message branch of the handler
IsFirstMessage(p) == p.FirstMessage = Some(TRUE)

\* !params || typeof params.FirstMessage === 'undefined' (serverless handler only)
IsInvalidPayload(p) == ~p.body \/ p.FirstMessage = None

\* mutant: the handler responds and, not returning, responds again
RespondTwice(status, body) ==
    /\ res' = res \o <<[status |-> status, body |-> body], [status |-> status, body |-> body]>>
    /\ pc' = "done"

\* the success body as res.json serializes it: JSON.stringify leaves out a
\* property whose value is a function
SuccessBody(audioData, text) ==
    IF text = ObjectFunction THEN [audioData |-> audioData]
    ELSE [audioData |-> audioData, text |-> text]

\* res.status(status).json(body): the handler returns with it
Respond(status, body) ==
    /\ res' = Append(res, [status |-> status, body |-> body])
    /\ pc' = "done"

\* mutant: the catch block also returns the text it has so far
RespondErrorWithText(message) ==
    Respond(500, [error |-> message, text |-> aiText])

\* catch (err): 500 with { error: err.message || default }
RespondError(message) ==
    Respond(500, [error |-> IF message # <<>> THEN message
                            ELSE IF host = "express" THEN <<"Internal Server Error">>
                            ELSE <<"Internal Error">>])

\* language.toLowerCase() on a request without a language field
TypeErrorMessage == <<"Cannot read properties of undefined (reading 'toLowerCase')">>

\* the raw body a client may post; the serverless platform also hands over
\* requests of any method and requests without a body
RawRequests ==
    Requests \cup (IF host = "serverless" THEN {NoBody("GET"), NoBody("POST")} ELSE {})

\* the response the handler of hosting mode h sends for p before any upstream
\* call, None when it goes on to an upstream call
EarlyResponse(h, p) ==
    IF h = "serverless" /\ p.method # "POST"
    THEN Some([status |-> 405, body |-> [error |-> <<"Method not allowed">>]])
    ELSE IF h = "serverless" /\ IsInvalidPayload(p)
    THEN Some([status |-> 400, body |-> [error |-> <<"Invalid payload">>]])
    ELSE IF p.language = None /\ ~(h = "serverless" /\ IsFirstMessage(p))
    THEN Some([status |-> 500, body |-> [error |-> TypeErrorMessage]])
    ELSE None

\* a request from a raw HTTP client arrives
DirectRequest ==
    /\ caller = "http"
    /\ pc = "idle"
    /\ \E r \in RawRequests : req' = Some(r)
    /\ pc' = "received"
    /\ UNCHANGED <<host, env, caller, aiText, calls, res, clientVars, hinglishVars, overlapVars, screenVars, formVars, pageVars>>

\* app.post('/api/chat') up to its first await
ExpressChat ==
    /\ host = "express"
    /\ pc = "received"
    /\ IF IsFirstMessage(params)
       THEN IF params.language = None
            THEN RespondError(TypeErrorMessage) /\ UNCHANGED aiText
            ELSE /\ aiText' = firstMessageTemplate(host, params.language[1], Feeling(params))
                 /\ pc' = "tts"
                 /\ UNCHANGED res
       ELSE IF params.language = None
            THEN RespondError(TypeErrorMessage) /\ UNCHANGED aiText
            ELSE pc' = "openai" /\ UNCHANGED <<aiText, res>>
    /\ UNCHANGED <<host, env, caller, req, calls, clientVars, hinglishVars, overlapVars, screenVars, formVars, pageVars>>

\* the serverless handler up to its first await
ServerlessChat ==
    /\ host = "serverless"
    /\ pc = "received"
    /\ IF params.method # "POST"
       THEN Respond(405, [error |-> <<"Method not allowed">>]) /\ UNCHANGED aiText
       ELSE IF IsInvalidPayload(params)
       THEN Respond(400, [error |-> <<"Invalid payload">>]) /\ UNCHANGED aiText
       ELSE IF IsFirstMessage(params)
       THEN /\ aiText' = firstMessageTemplate(host, OrElse(params.language, "english"),
                                              Feeling(params))
            /\ pc' = "tts"
            /\ UNCHANGED res
       ELSE IF params.language = None
            THEN RespondError(TypeErrorMessage) /\ UNCHANGED aiText
            ELSE pc' = "openai" /\ UNCHANGED <<aiText, res>>
    /\ UNCHANGED <<host, env, caller, req, calls, clientVars, hinglishVars, overlapVars, screenVars, formVars, pageVars>>

\* mutant: a failed chat completion is not thrown, synthesis goes on without a reply
callOpenAIChatUnchecked ==
    /\ pc = "openai"
    /\ LET system == buildSystemPrompt(host, params.language[1],
                        IF params.assessment_question_answers = None THEN <<>>
                        ELSE params.assessment_question_answers[1])
           messages == Messages(host, system, UserPrompt(params), params.ConversationHistory)
       IN \E o \in OpenAIOutcomes :
            /\ calls' = Append(calls, Call("openai", "OPENAI_API_KEY", messages, o))
            /\ aiText' = IF o.kind = "ok" THEN ReplyText(host, o.body) ELSE ReplyText(host, "")
            /\ pc' = "tts"
            /\ UNCHANGED res
    /\ UNCHANGED <<host, env, caller, req, clientVars, hinglishVars, overlapVars, screenVars, formVars, pageVars>>

\* buildSystemPrompt, then callOpenAIChat: one fetch, no retry
callOpenAIChat ==
    /\ pc = "openai"
    /\ LET system == buildSystemPrompt(host, params.language[1],
                        IF params.assessment_question_answers = None THEN <<>>
                        ELSE params.assessment_question_answers[1])
           messages == Messages(host, system, UserPrompt(params), params.ConversationHistory)
       IN \E o \in OpenAIOutcomes :
            /\ calls' = Append(calls, Call("openai", "OPENAI_API_KEY", messages, o))
            /\ CASE o.kind = "throw" -> RespondError(<<o.body>>) /\ UNCHANGED aiText
                 [] o.kind = "error" -> RespondError(<<"OpenAI Error: ", o.body>>)
                                        /\ UNCHANGED aiText
                 [] o.kind = "ok" -> /\ aiText' = ReplyText(host, o.body)
                                     /\ pc' = "tts"
                                     /\ UNCHANGED res
    /\ UNCHANGED <<host, env, caller, req, clientVars, hinglishVars, overlapVars, screenVars, formVars, pageVars>>

\* generateTTS, voice-cloning branch
generateTTSHume ==
    /\ pc = "tts"
    /\ UsesHume(host, TTSLanguage(host, params))
    /\ \E o \in HumeOutcomes, written \in BOOLEAN :
         /\ calls' = Append(calls, Call("hume", "HUME_API_KEY", aiText, o))
         /\ CASE o.kind = "throw" -> RespondError(<<o.body>>)
              [] o.kind = "error" -> RespondError(<<"Hume TTS Error: ", o.body>>)
              [] o.kind = "ok" ->
                   IF o.body = "" THEN RespondError(<<"Hume TTS: Missing audio in response">>)
                   ELSE IF ~written THEN RespondError(<<"EACCES: permission denied, open 'test.mp3'">>)
                   ELSE Respond(200, SuccessBody(o.body, aiText))
    /\ UNCHANGED <<host, env, caller, req, aiText, clientVars, hinglishVars, overlapVars, screenVars, formVars, pageVars>>

\* generateTTS after the last callEleven: throw, or encode and return the audio
ElevenResult(resp, written) ==
    IF resp.kind # "ok"
    THEN RespondError(<<"ElevenLabs TTS Error: ",
                        IF resp.kind = "undefined" THEN "No response" ELSE resp.body>>)
    ELSE IF WritesDebugFile(host) /\ ~written
    THEN RespondError(<<"EACCES: permission denied, open 'test.mp3'">>)
    ELSE Respond(200, SuccessBody(Base64(resp.body), aiText))

\* generateTTS, direct branch: callEleven(ELEVENLABS_API_KEY)
callElevenPrimary ==
    /\ pc = "tts"
    /\ ~UsesHume(host, TTSLanguage(host, params))
    /\ \E o \in (IF env.ELEVENLABS_API_KEY THEN ElevenOutcomes ELSE {Undefined}),
          written \in BOOLEAN :
         /\ calls' = Append(calls, Call("elevenlabs", "ELEVENLABS_API_KEY", aiText, o))
         /\ IF o.kind = "throw" THEN RespondError(<<o.body>>)
            ELSE IF TriesSecondary(host, o) THEN pc' = "eleven2" /\ UNCHANGED res
            ELSE ElevenResult(o, written)
    /\ UNCHANGED <<host, env, caller, req, aiText, clientVars, hinglishVars, overlapVars, screenVars, formVars, pageVars>>

\* mutant: the secondary credential is tried again while it yields a non-success status
callElevenSecondaryAgain ==
    /\ pc = "eleven2"
    /\ \E o \in (IF env.ELEVENLABS2_API_KEY THEN ElevenOutcomes ELSE {Undefined}),
          written \in BOOLEAN :
         /\ calls' = Append(calls, Call("elevenlabs", "ELEVENLABS2_API_KEY", aiText, o))
         /\ IF o.kind = "throw" THEN RespondError(<<o.body>>)
            ELSE IF o.kind = "error" THEN pc' = "eleven2" /\ UNCHANGED res
            ELSE ElevenResult(o, written)
    /\ UNCHANGED <<host, env, caller, req, aiText, clientVars, hinglishVars, overlapVars, screenVars, formVars, pageVars>>

\* generateTTS, direct branch: callEleven(ELEVENLABS2_API_KEY)
callElevenSecondary ==
    /\ pc = "eleven2"
    /\ \E o \in (IF env.ELEVENLABS2_API_KEY THEN ElevenOutcomes ELSE {Undefined}),
          written \in BOOLEAN :
         /\ calls' = Append(calls, Call("elevenlabs", "ELEVENLABS2_API_KEY", aiText, o))
         /\ IF o.kind = "throw" THEN RespondError(<<o.body>>)
            ELSE ElevenResult(o, written)
    /\ UNCHANGED <<host, env, caller, req, aiText, clientVars, hinglishVars, overlapVars, screenVars, formVars, pageVars>>

-----------------------------------------------------------------------------
(* The chat screen *)

\* conversations sessionStorage can hold when the screen mounts: the greeting,
\* then user and assistant turns in alternation
StoredConversations == {History(n) : n \in {k \in 1..MaxStored : k % 2 = 1}}

ChatMessage(role, content, audioData) ==
    [role |-> role, content |-> content, audioData |-> audioData]

\* mutant: sendMessage sends the whole conversation
HistoryWindowWhole(updatedHistory) == updatedHistory

\* updatedHistory.slice(-5): the window of turns sendMessage sends
HistoryWindow(updatedHistory) == SliceLast(updatedHistory, 5)

\* the body axios posts to /api/chat
FirstMessageRequest(language) ==
    [ method |-> "POST", body |-> TRUE, FirstMessage |-> Some(TRUE),
      assessment_question_answers |-> Some(StoredAssessment),
      language |-> Some(language), Transcript |-> None, ConversationHistory |-> None ]

SendMessageRequest(language, messageText, updatedHistory) ==
    [ method |-> "POST", body |-> TRUE, FirstMessage |-> Some(FALSE),
      assessment_question_answers |-> Some(StoredAssessment),
      language |-> Some(language), Transcript |-> Some(messageText),
      ConversationHistory |-> Some(HistoryWindow(updatedHistory)) ]

\* getChatResponse: response.data, or the mock response when axios throws
MockResponse(first) ==
    [ audioData |-> "mock_base64_audio_data",
      text |-> IF first
               THEN <<"Hello! I'm Jennifer, your AI therapist. I'm here to listen and support you through our conversation today.">>
               ELSE <<"I understand. Please tell me more about how you're feeling.">> ]

getChatResponse(first, delivered) ==
    IF delivered /\ res[1].status = 200 THEN res[1].body ELSE MockResponse(first)

\* axios.post reaches the server: a new request starts
Post(r) ==
    /\ req' = Some(r)
    /\ pc' = "received"
    /\ aiText' = <<>>
    /\ calls' = <<>>
    /\ res' = <<>>

\* useEffect on mount: load the stored conversation, or ask for the greeting
mountChat ==
    /\ caller = "browser"
    /\ pc = "idle"
    /\ pending = None
    /\ conversationHistory = <<>>
    /\ IF session # None
       THEN /\ conversationHistory' = session[1]
            /\ UNCHANGED <<serverVars, pending>>
       ELSE /\ \E l \in ClientLanguages : Post(FirstMessageRequest(l))
            /\ pending' = Some([first |-> TRUE, updatedHistory |-> <<>>])
            /\ UNCHANGED conversationHistory
    /\ UNCHANGED <<host, env, caller, session, sends, hinglishVars, overlapVars, screenVars, formVars, pageVars>>

\* sendMessage up to its await; the record button is disabled while a request
\* is awaited, and a mounted screen that awaits nothing shows a conversation
sendMessage ==
    /\ caller = "browser"
    /\ pc \in {"idle", "done"}
    /\ conversationHistory # <<>>
    /\ pending = None
    /\ sends < MaxSends
    /\ \E l \in ClientLanguages, messageText \in Transcripts \ {""} :
         LET userMessage == ChatMessage("user", <<messageText>>, "cmVjb3JkZWQ=")
             updatedHistory == Append(conversationHistory, userMessage)
         IN /\ conversationHistory' = updatedHistory
            /\ Post(SendMessageRequest(l, messageText, updatedHistory))
            /\ pending' = Some([first |-> FALSE, updatedHistory |-> updatedHistory])
    /\ sends' = sends + 1
    /\ UNCHANGED <<host, env, caller, session, hinglishVars, overlapVars, screenVars, formVars, pageVars>>

\* the awaited getChatResponse settles: handleInitialMessage or sendMessage resumes
chatResponse ==
    /\ caller = "browser"
    /\ pc = "done"
    /\ pending # None
    /\ \E delivered \in BOOLEAN :
         LET response == getChatResponse(pending[1].first, delivered)
             assistantMessage == ChatMessage("assistant", response.text, response.audioData)
             finalHistory == IF pending[1].first THEN <<assistantMessage>>
                             ELSE Append(pending[1].updatedHistory, assistantMessage)
         IN /\ conversationHistory' = finalHistory
            /\ session' = Some(finalHistory)
    /\ pending' = None
    /\ UNCHANGED <<host, env, caller, serverVars, sends, hinglishVars, overlapVars, screenVars, formVars, pageVars>>

-----------------------------------------------------------------------------
(* The transcript conversion, convertHindiToHinglish of server/logic.ts. A *)
(* transcript is a sequence of characters; a word stands for a run of      *)
(* characters that are not white space.                                    *)

Whitespace == {" ", "\n"}

TranscriptChars == Whitespace \cup {"You:", "[devanagari]"}

RECURSIVE SeqsUpTo(_, _)
SeqsUpTo(S, n) ==
    IF n = 0 THEN {<<>>}
    ELSE LET shorter == SeqsUpTo(S, n - 1)
         IN shorter \cup {Append(t, c) : t \in {u \in shorter : Len(u) = n - 1}, c \in S}

FullTranscripts == SeqsUpTo(TranscriptChars, MaxChars)

RECURSIVE TrimStart(_)
TrimStart(t) ==
    IF t # <<>> /\ Head(t) \in Whitespace THEN TrimStart(Tail(t)) ELSE t

RECURSIVE TrimEnd(_)
TrimEnd(t) ==
    IF t # <<>> /\ t[Len(t)] \in Whitespace THEN TrimEnd(SubSeq(t, 1, Len(t) - 1)) ELSE t

\* String.prototype.trim
Trim(t) == TrimEnd(TrimStart(t))

\* mutant: only the empty string is taken for a transcript with nothing in it
IsBlankOnlyWhenEmpty(t) == t = <<>>

\* !fullTranscript || !fullTranscript.trim()
IsBlank(t) == t = <<>> \/ Trim(t) = <<>>

\* the messages convertHindiToHinglish posts: the instruction, and the
\* transcript inside the user prompt, which is trimmed as a whole
HinglishMessages(t) ==
    << [role |-> "system", content |-> <<"You are a precise transliterator. ...">>],
       [role |-> "user",
        content |-> <<"Convert the following text exactly as per the above rules:", "\n\n">>
                    \o TrimEnd(t)] >>

\* what the chat provider can answer to it: choices[0].message.content, '' when there is none
HinglishOutcomes ==
    {[kind |-> "throw", body |-> <<"fetch failed">>]}
        \cup {[kind |-> "error", body |-> <<e>>] : e \in ErrBodies}
        \cup {[kind |-> "ok", body |-> c] :
                  c \in {<<>>, <<"You:", " ", "namaste">>, <<" ", "namaste", "\n">>}}

\* convertHindiToHinglish up to its await: a blank transcript is answered at once
convertHindiToHinglish ==
    /\ caller = "results"
    /\ hpc = "idle"
    /\ \E t \in FullTranscripts :
         /\ fullTranscript' = Some(t)
         /\ IF IsBlank(t)
            THEN hpc' = "returned" /\ hinglishResult' = Some(<<>>)
            ELSE hpc' = "fetch" /\ UNCHANGED hinglishResult
    /\ UNCHANGED <<hinglishCalls, host, env, caller, serverVars, clientVars, overlapVars, screenVars, formVars, pageVars>>

\* the awaited fetch settles: throw, or return the trimmed content
hinglishFetch ==
    /\ hpc = "fetch"
    /\ \E o \in HinglishOutcomes :
         /\ hinglishCalls' = Append(hinglishCalls,
                [ model |-> "gpt-4o-mini", messages |-> HinglishMessages(fullTranscript[1]),
                  temperature |-> 0, top_p |-> 0, outcome |-> o.kind, body |-> o.body ])
         /\ CASE o.kind = "throw" -> hpc' = "thrown" /\ hinglishResult' = Some(o.body)
              [] o.kind = "error" -> /\ hpc' = "thrown"
                                     /\ hinglishResult' = Some(<<"OpenAI Hinglish Error: ">> \o o.body)
              [] o.kind = "ok" -> hpc' = "returned" /\ hinglishResult' = Some(Trim(o.body))
    /\ UNCHANGED <<fullTranscript, host, env, caller, serverVars, clientVars, overlapVars, screenVars, formVars, pageVars>>

-----------------------------------------------------------------------------
(* Two chat requests whose handlers overlap: each run of the async handler *)
(* has its own locals (params, aiText, the responses of its fetches); a    *)
(* step is what runs between two awaits. The only thing the handlers of    *)
(* server.ts share and write is the debug file test.mp3.                   *)

HandlerIds == {1, 2}

IdleHandler ==
    [ req |-> None, pc |-> "idle", aiText |-> <<>>, calls |-> <<>>, res |-> <<>>,
      debugWrite |-> None ]

\* the requests two clients send at about the same time
OverlapRequests ==
    { FirstMessageRequest("English"), FirstMessageRequest("French"),
      SendMessageRequest("English", "I could not sleep", History(1)) }

\* mutant: the text is kept in one place for all requests, so a handler may find the other's
TextOfOther(r) == handlers[3 - r].aiText

\* the local aiText of handler r
TextOf(r) == handlers[r].aiText

Replied(l, status, body) ==
    [l EXCEPT !.res = Append(@, [status |-> status, body |-> body]), !.pc = "done"]

Threw(l, message) == Replied(l, 500, [error |-> message])

Logged(l, c) == [l EXCEPT !.calls = Append(@, c)]

\* the handler up to its first await
LocalStart(l) ==
    LET p == l.req[1] IN
    IF EarlyResponse(host, p) # None
    THEN Replied(l, EarlyResponse(host, p)[1].status, EarlyResponse(host, p)[1].body)
    ELSE IF IsFirstMessage(p)
    THEN [l EXCEPT !.aiText = firstMessageTemplate(host, OrElse(p.language, "english"),
                                                   Feeling(p)),
                   !.pc = "tts"]
    ELSE [l EXCEPT !.pc = "openai"]

\* callOpenAIChat settles
LocalOpenAI(l, o) ==
    LET p == l.req[1]
        system == buildSystemPrompt(host, p.language[1],
                      IF p.assessment_question_answers = None THEN <<>>
                      ELSE p.assessment_question_answers[1])
        logged == Logged(l, Call("openai", "OPENAI_API_KEY",
                                 Messages(host, system, UserPrompt(p), p.ConversationHistory), o))
    IN CASE o.kind = "throw" -> Threw(logged, <<o.body>>)
         [] o.kind = "error" -> Threw(logged, <<"OpenAI Error: ", o.body>>)
         [] o.kind = "ok" -> [logged EXCEPT !.aiText = ReplyText(host, o.body), !.pc = "tts"]

\* generateTTS has its audio: the debug write, then the response
LocalAudio(l, audio, written) ==
    IF ~WritesDebugFile(host) THEN Replied(l, 200, SuccessBody(audio, l.aiText))
    ELSE IF ~written
    THEN Threw([l EXCEPT !.debugWrite = Some(FALSE)],
               <<"EACCES: permission denied, open 'test.mp3'">>)
    ELSE Replied([l EXCEPT !.debugWrite = Some(TRUE)], 200, SuccessBody(audio, l.aiText))

\* the Hume fetch of generateTTS settles
LocalHume(l, text, o, written) ==
    LET logged == Logged(l, Call("hume", "HUME_API_KEY", text, o)) IN
    CASE o.kind = "throw" -> Threw(logged, <<o.body>>)
      [] o.kind = "error" -> Threw(logged, <<"Hume TTS Error: ", o.body>>)
      [] o.kind = "ok" -> IF o.body = ""
                          THEN Threw(logged, <<"Hume TTS: Missing audio in response">>)
                          ELSE LocalAudio(logged, o.body, written)

\* a callEleven of generateTTS settles
LocalEleven(l, key, text, o, written) ==
    LET logged == Logged(l, Call("elevenlabs", key, text, o)) IN
    IF o.kind = "throw" THEN Threw(logged, <<o.body>>)
    ELSE IF key = "ELEVENLABS_API_KEY" /\ TriesSecondary(host, o)
    THEN [logged EXCEPT !.pc = "eleven2"]
    ELSE IF o.kind # "ok"
    THEN Threw(logged, <<"ElevenLabs TTS Error: ",
                         IF o.kind = "undefined" THEN "No response" ELSE o.body>>)
    ELSE LocalAudio(logged, Base64(o.body), written)

\* what a step of handler r can make of its locals
LocalSteps(r) ==
    LET l == handlers[r] IN
    CASE l.pc = "received" -> {LocalStart(l)}
      [] l.pc = "openai" -> {LocalOpenAI(l, o) : o \in OpenAIOutcomes}
      [] l.pc = "tts" ->
            IF UsesHume(host, TTSLanguage(host, l.req[1]))
            THEN {LocalHume(l, TextOf(r), o, w) : o \in HumeOutcomes, w \in BOOLEAN}
            ELSE {LocalEleven(l, "ELEVENLABS_API_KEY", TextOf(r), o, w) :
                     o \in (IF env.ELEVENLABS_API_KEY THEN ElevenOutcomes ELSE {Undefined}),
                     w \in BOOLEAN}
      [] l.pc = "eleven2" ->
            {LocalEleven(l, "ELEVENLABS2_API_KEY", TextOf(r), o, w) :
                o \in (IF env.ELEVENLABS2_API_KEY THEN ElevenOutcomes ELSE {Undefined}),
                w \in BOOLEAN}
      [] OTHER -> {}

\* a request arrives while the other handler may be anywhere
overlappingRequest ==
    /\ caller = "concurrent"
    /\ \E r \in HandlerIds, q \in OverlapRequests :
         /\ handlers[r].pc = "idle"
         /\ handlers' = [handlers EXCEPT ![r] = [@ EXCEPT !.req = Some(q), !.pc = "received"]]
    /\ UNCHANGED <<testMp3, host, env, caller, serverVars, clientVars, hinglishVars, screenVars, formVars, pageVars>>

\* one handler runs from one await to the next
overlappingStep ==
    /\ caller = "concurrent"
    /\ \E r \in HandlerIds :
         \E n \in LocalSteps(r) :
            /\ handlers' = [handlers EXCEPT ![r] = n]
            /\ testMp3' = IF n.debugWrite = Some(TRUE) /\ handlers[r].debugWrite = None
                          THEN Some(n.res[1].body.audioData)
                          ELSE testMp3
    /\ UNCHANGED <<host, env, caller, serverVars, clientVars, hinglishVars, screenVars, formVars, pageVars>>

-----------------------------------------------------------------------------
(* The chat screen on its own: the record buttons, the callback that       *)
(* stopRecording schedules, and the awaited getChatResponse calls. What    *)
(* the server answers is left open: a reply is the server's or the mock    *)
(* response of getChatResponse.                                            *)

\* the n-th message the user records
UserMessage(messageText, n) ==
    ChatMessage("user", <<messageText, ToString(n)>>, "cmVjb3JkZWQ=")

\* what getChatResponse resolves to for the n-th request
Replies(first, n) ==
    { [audioData |-> "c2VydmVy", text |-> <<"reply", ToString(n)>>], MockResponse(first) }

Remove(q, i) == SubSeq(q, 1, i - 1) \o SubSeq(q, i + 1, Len(q))

\* useEffect on mount, with handleInitialMessage up to its await; the state of
\* a component instance starts from its initial values. The chat is entered
\* from the assessment form: on a first visit, or again after Start Over
mountScreen ==
    /\ caller = "screen"
    /\ ~mounted
    /\ route \in {"none", "home"}
    /\ instance < MaxMounts
    /\ mounted' = TRUE
    /\ instance' = instance + 1
    /\ route' = "chat"
    /\ IF session # None
       THEN /\ conversationHistory' = session[1]
            /\ UNCHANGED <<isLoading, inflight>>
       ELSE /\ isLoading' = TRUE
            /\ inflight' = Append(inflight, [first |-> TRUE, updatedHistory |-> <<>>, n |-> 0,
                                             instance |-> instance + 1])
            /\ UNCHANGED conversationHistory
    /\ UNCHANGED <<isRecording, timers, session, pending, sends,
                   assessment, storeCalls, currentQuestion, selectedAnswer, otherText,
                   i18nLanguage, jenniferLanguage,
                   host, env, caller, serverVars, hinglishVars, overlapVars, pageVars>>

\* the RECORD button: shown while not recording, disabled while isLoading
startRecording ==
    /\ caller = "screen"
    /\ mounted /\ ~isRecording /\ ~isLoading
    /\ sends < MaxRecordings
    /\ isRecording' = TRUE
    /\ UNCHANGED <<mounted, instance, isLoading, timers, inflight, clientVars,
                   host, env, caller, serverVars, hinglishVars, overlapVars, formVars, pageVars>>

\* the STOP button: shown while recording; it schedules a callback that holds
\* the transcript and the sendMessage of this render, with its conversationHistory
stopRecording ==
    /\ caller = "screen"
    /\ mounted /\ isRecording
    /\ isRecording' = FALSE
    /\ sends' = sends + 1
    /\ \E transcript \in Transcripts :
         timers' = IF transcript = "" THEN timers
                   ELSE Append(timers, [ conversationHistory |-> conversationHistory,
                                         transcript |-> transcript, n |-> sends + 1,
                                         instance |-> instance ])
    /\ UNCHANGED <<mounted, instance, isLoading, inflight, conversationHistory, session, pending,
                   host, env, caller, serverVars, hinglishVars, overlapVars, formVars, pageVars>>

\* the component instance c belongs to is the one on screen: its setState calls take effect
OnScreen(c) == mounted /\ c.instance = instance

\* the scheduled callback runs: sendMessage up to its await
timerFires ==
    /\ caller = "screen"
    /\ timers # <<>>
    /\ LET c == Head(timers)
           updatedHistory == Append(c.conversationHistory, UserMessage(c.transcript, c.n))
       IN /\ IF OnScreen(c)
             THEN isLoading' = TRUE /\ conversationHistory' = updatedHistory
             ELSE UNCHANGED <<isLoading, conversationHistory>>
          /\ inflight' = Append(inflight,
                 [first |-> FALSE, updatedHistory |-> updatedHistory, n |-> c.n,
                  instance |-> c.instance])
    /\ timers' = Tail(timers)
    /\ UNCHANGED <<mounted, instance, isRecording, session, pending, sends,
                   host, env, caller, serverVars, hinglishVars, overlapVars, formVars, pageVars>>

\* an awaited getChatResponse settles: handleInitialMessage or sendMessage resumes
responseArrives ==
    /\ caller = "screen"
    /\ \E i \in DOMAIN inflight :
         \E response \in Replies(inflight[i].first, inflight[i].n) :
            LET assistantMessage == ChatMessage("assistant", response.text, response.audioData)
                finalHistory == IF inflight[i].first THEN <<assistantMessage>>
                                ELSE Append(inflight[i].updatedHistory, assistantMessage)
            IN /\ IF OnScreen(inflight[i])
                  THEN conversationHistory' = finalHistory /\ isLoading' = FALSE
                  ELSE UNCHANGED <<conversationHistory, isLoading>>
               /\ session' = Some(finalHistory)
               /\ inflight' = Remove(inflight, i)
    /\ UNCHANGED <<mounted, instance, isRecording, timers, pending, sends,
                   host, env, caller, serverVars, hinglishVars, overlapVars, formVars, pageVars>>

\* the END CALL button: stops the recorder and navigates to the results page;
\* the chat screen unmounts and its state is gone
handleEndCall ==
    /\ caller = "screen"
    /\ mounted
    /\ mounted' = FALSE
    /\ route' = "results"
    /\ isRecording' = FALSE
    /\ isLoading' = FALSE
    /\ conversationHistory' = <<>>
    /\ UNCHANGED <<instance, timers, inflight, session, pending, sends,
                   assessment, storeCalls, currentQuestion, selectedAnswer, otherText,
                   i18nLanguage, jenniferLanguage,
                   host, env, caller, serverVars, hinglishVars, overlapVars, pageVars>>

\* sessionStorage after clearAssessment: the three keys are removed
clearAssessment ==
    /\ assessment' = <<>>
    /\ jenniferLanguage' = None
    /\ session' = None

\* the Start Over button of the results page
handleDeleteAndReset ==
    /\ caller = "screen"
    /\ route = "results"
    /\ clearAssessment
    /\ storeCalls' = <<>>
    /\ route' = "home"
    /\ UNCHANGED <<conversationHistory, pending, sends, screenVars,
                   currentQuestion, selectedAnswer, otherText, i18nLanguage,
                   host, env, caller, serverVars, hinglishVars, overlapVars, pageVars>>

-----------------------------------------------------------------------------
(* The assessment form (caller = "form")                                   *)
(*                                                                         *)
(* sessionStorage 'jennifer_assessment' is the sequence assessment; the    *)
(* form answers the questions of assessmentQuestions in order, one screen  *)
(* per question. storeCalls records, for every question answered since the *)
(* store was last empty, the arguments of the latest call of               *)
(* storeAssessmentAnswer for it, in the order of the first calls.          *)

\* assessmentQuestions as declared: ten questions, the last one the country list
AllQuestions ==
    << [id |-> 1, question |-> "What language do you want to proceed in?", type |-> "single",
        options |-> <<"English", "French", "Spanish", "Hindi">>],
       [id |-> 2, question |-> "How are you feeling today?", type |-> "single",
        options |-> <<"Calm", "Anxious", "Sad", "Angry", "Overwhelmed", "Other">>],
       [id |-> 3, question |-> "What brings you here today?", type |-> "single",
        options |-> <<"Stress", "Relationships", "Self-reflection", "Building confidence",
                      "Challenges", "Other">>],
       [id |-> 4, question |-> "What's your biggest challenge right now?", type |-> "single",
        options |-> <<"Work", "Relationships", "Motivation", "Managing emotions",
                      "Confidence", "Other">>],
       [id |-> 5, question |-> "How often do you feel overwhelmed?", type |-> "single",
        options |-> <<"Daily", "Weekly", "Monthly", "Rarely", "Never">>],
       [id |-> 6, question |-> "How's your energy level today?", type |-> "single",
        options |-> <<"High", "Moderate", "Low", "Very Low">>],
       [id |-> 7, question |-> "How do you usually handle difficult moments?", type |-> "single",
        options |-> <<"Talking", "Exercise", "Self-care", "Hobbies", "Avoidance", "Other">>],
       [id |-> 8, question |-> "What does your typical day look like?", type |-> "single",
        options |-> <<"Productive", "Busy", "Unstructured", "Relaxed", "Other">>],
       [id |-> 9, question |-> "How do you feel about sharing your emotions?", type |-> "single",
        options |-> <<"Very comfortable", "Somewhat comfortable", "Not comfortable",
                      "Uncomfortable">>],
       [id |-> 10, question |-> "Where are you located?", type |-> "country",
        options |-> <<"United States", "Canada", "United Kingdom", "Australia", "Germany",
                      "France", "Spain", "India", "Other">>] >>

\* the list the form walks through here: its first MaxQuestions - 1 questions
\* and then its last one, so that the country screen is part of every run
assessmentQuestions ==
    Append(SubSeq(AllQuestions, 1, MaxQuestions - 1), AllQuestions[Len(AllQuestions)])

Range(q) == {q[i] : i \in DOMAIN q}

\* the options the user clicks: the first MaxOptions of the list, and "Other" when listed
Clickable(question) ==
    {question.options[i] : i \in {j \in DOMAIN question.options : j <= MaxOptions}}
        \cup (Range(question.options) \cap {"Other"})

\* what the user types into the free-text input
TypedTexts == SeqsUpTo({" ", "lonely"}, MaxTyped)

\* the characters of a string, as one string
RECURSIVE AsString(_)
AsString(s) == IF s = <<>> THEN "" ELSE Head(s) \o AsString(Tail(s))

\* LANGUAGE_CODES over the names the first question offers
LANGUAGE_CODES(name) ==
    CASE name = "English" -> "en"
      [] name = "French" -> "fr"
      [] name = "Spanish" -> "es"
      [] name = "Hindi" -> "hi"

\* i18n.t(key, { defaultValue }): the English resources hold the text the
\* code has as default; another language holds its translation
i18nT(lang, defaultValue) ==
    IF lang = "en" THEN defaultValue ELSE lang \o ":" \o defaultValue

\* option.toLowerCase().replace(/[^a-z0-9]/g, '_')
generateOptionKey(option) ==
    CASE option = "English" -> "english"
      [] option = "French" -> "french"
      [] option = "Spanish" -> "spanish"
      [] option = "Hindi" -> "hindi"
      [] option = "Calm" -> "calm"
      [] option = "Anxious" -> "anxious"
      [] option = "Sad" -> "sad"
      [] option = "Other" -> "other"
      [] option = "Stress" -> "stress"
      [] option = "Relationships" -> "relationships"
      [] option = "Self-reflection" -> "self_reflection"
      [] option = "Work" -> "work"
      [] option = "Motivation" -> "motivation"
      [] option = "Daily" -> "daily"
      [] option = "Weekly" -> "weekly"
      [] option = "Monthly" -> "monthly"
      [] option = "High" -> "high"
      [] option = "Moderate" -> "moderate"
      [] option = "Low" -> "low"
      [] option = "Talking" -> "talking"
      [] option = "Exercise" -> "exercise"
      [] option = "Self-care" -> "self_care"
      [] option = "Productive" -> "productive"
      [] option = "Busy" -> "busy"
      [] option = "Unstructured" -> "unstructured"
      [] option = "Very comfortable" -> "very_comfortable"
      [] option = "Somewhat comfortable" -> "somewhat_comfortable"
      [] option = "Not comfortable" -> "not_comfortable"

\* assessmentQuestions.find(q => q.id === questionId)
QuestionDef(questionId) ==
    LET hits == {i \in DOMAIN assessmentQuestions : assessmentQuestions[i].id = questionId}
    IN IF hits = {} THEN None
       ELSE Some(assessmentQuestions[CHOOSE i \in hits : \A j \in hits : i <= j])

\* current.findIndex(a => a.questionId === questionId), 0 for -1
FindIndex(current, questionId) ==
    LET hits == {i \in DOMAIN current : current[i].questionId = questionId}
    IN IF hits = {} THEN 0 ELSE CHOOSE i \in hits : \A j \in hits : i <= j

\* storeAssessmentAnswer: the entry it builds
NewEntry(questionId, rawAnswer, opts, currentLang) ==
    LET questionDef == QuestionDef(questionId)
        isCountry == questionId = 10
        isOption == /\ ~opts
                    /\ \/ isCountry
                       \/ questionDef # None /\ rawAnswer \in Range(questionDef[1].options)
    IN [questionId |-> questionId,
        question |-> i18nT(currentLang, AllQuestions[questionId].question),
        answer |-> IF isOption THEN i18nT(currentLang, rawAnswer) ELSE rawAnswer,
        optionKey |-> IF ~isOption THEN None
                      ELSE IF isCountry THEN Some(rawAnswer)
                      ELSE Some(generateOptionKey(rawAnswer)),
        freeText |-> ~isOption]

\* the earlier revision: filter the question out and push the new entry
StoreFilterPush(current, newEntry) ==
    Append(SelectSeq(current, LAMBDA a : a.questionId # newEntry.questionId), newEntry)

\* replace in place to preserve the original order, or append
StoreInPlace(current, newEntry) ==
    LET existingIndex == FindIndex(current, newEntry.questionId)
    IN IF existingIndex # 0 THEN [current EXCEPT ![existingIndex] = newEntry]
       ELSE Append(current, newEntry)

\* the value storeAssessmentAnswer sets 'jennifer_assessment' to
storeAssessmentAnswer(current, questionId, rawAnswer, opts, currentLang) ==
    StoreInPlace(current, NewEntry(questionId, rawAnswer, opts, currentLang))

\* the stored answers as the form's effect loads them: answerMap.get(id), '' for none
StoredAnswer(stored, questionId) ==
    LET i == FindIndex(stored, questionId)
    IN IF i = 0 THEN "" ELSE stored[i].answer

question == assessmentQuestions[currentQuestion + 1]

\* mutant: the Next button is never disabled
NextAlwaysEnabled == TRUE

isNextEnabled ==
    selectedAnswer # "" /\ (selectedAnswer # "Other" \/ Trim(otherText) # <<>>)

\* what the calls made so far asked for: the questions in the order in which
\* each was first answered, each with the arguments of its latest call
Called(log, call) ==
    IF \E i \in DOMAIN log : log[i].questionId = call.questionId
    THEN [i \in DOMAIN log |-> IF log[i].questionId = call.questionId THEN call ELSE log[i]]
    ELSE log \o <<call>>

\* the call of storeAssessmentAnswer the handlers of the form make
Store(rawAnswer) ==
    /\ assessment' = storeAssessmentAnswer(assessment, question.id, rawAnswer, FALSE, i18nLanguage)
    /\ storeCalls' = Called(storeCalls, [questionId |-> question.id, rawAnswer |-> rawAnswer,
                                         currentLang |-> i18nLanguage])

\* the form mounts (first visit, or the user comes back to it): state starts
\* from its initial values and the effect loads the stored answer of question 0
mountForm ==
    /\ caller = "form"
    /\ route' = "assessment"
    /\ currentQuestion' = 0
    /\ otherText' = <<>>
    /\ selectedAnswer' = StoredAnswer(assessment, assessmentQuestions[1].id)
    /\ UNCHANGED <<assessment, storeCalls, i18nLanguage, jenniferLanguage,
                   host, env, caller, serverVars, clientVars, hinglishVars, overlapVars, screenVars, pageVars>>

\* an option button; the answer to the first question also sets the language
handleAnswerSelect ==
    /\ caller = "form" /\ route = "assessment"
    /\ question.type = "single"
    /\ \E answer \in Clickable(question) :
         /\ selectedAnswer' = answer
         /\ IF answer # "Other"
            THEN /\ otherText' = <<>>
                 /\ Store(answer)
                 /\ IF currentQuestion = 0
                    THEN /\ jenniferLanguage' = Some(answer)
                         /\ i18nLanguage' = LANGUAGE_CODES(answer)
                    ELSE UNCHANGED <<jenniferLanguage, i18nLanguage>>
            ELSE UNCHANGED <<otherText, assessment, storeCalls, jenniferLanguage, i18nLanguage>>
    /\ UNCHANGED <<route, currentQuestion,
                   host, env, caller, serverVars, clientVars, hinglishVars, overlapVars, screenVars, pageVars>>

\* the free-text input, shown while "Other" is selected
handleOtherTextChange ==
    /\ caller = "form" /\ route = "assessment"
    /\ question.type = "single" /\ selectedAnswer = "Other"
    /\ \E text \in TypedTexts :
         /\ otherText' = text
         /\ IF Trim(text) # <<>>
            THEN Store(AsString(Trim(text)))
            ELSE UNCHANGED <<assessment, storeCalls>>
    /\ UNCHANGED <<route, currentQuestion, selectedAnswer, i18nLanguage, jenniferLanguage,
                   host, env, caller, serverVars, clientVars, hinglishVars, overlapVars, screenVars, pageVars>>

\* the country list
handleCountrySelect ==
    /\ caller = "form" /\ route = "assessment"
    /\ question.type = "country"
    /\ \E country \in Clickable(question) \ {"Other"} :
         /\ selectedAnswer' = country
         /\ Store(country)
    /\ UNCHANGED <<route, currentQuestion, otherText, i18nLanguage, jenniferLanguage,
                   host, env, caller, serverVars, clientVars, hinglishVars, overlapVars, screenVars, pageVars>>

\* the Next button; on the last question it navigates to the chat. The effect
\* on currentQuestion then shows the stored answer of the next question
handleNext ==
    /\ caller = "form" /\ route = "assessment"
    /\ isNextEnabled
    /\ IF currentQuestion < Len(assessmentQuestions) - 1
       THEN /\ currentQuestion' = currentQuestion + 1
            /\ selectedAnswer' = StoredAnswer(assessment, assessmentQuestions[currentQuestion + 2].id)
            /\ otherText' = <<>>
            /\ UNCHANGED route
       ELSE /\ route' = "chat"
            /\ UNCHANGED <<currentQuestion, selectedAnswer, otherText>>
    /\ UNCHANGED <<assessment, storeCalls, i18nLanguage, jenniferLanguage,
                   host, env, caller, serverVars, clientVars, hinglishVars, overlapVars, screenVars, pageVars>>

-----------------------------------------------------------------------------
(* The transcript toggle of the results page (caller = "resultsPage")      *)
(*                                                                         *)
(* The page loads the stored conversation when it mounts. In Hindi it      *)
(* shows a button that switches the transcript between Devanagari and      *)
(* Hinglish; the Hinglish text is asked of convertTranscriptToHinglish on  *)
(* the first switch and kept in hinglishTranscript.                        *)

\* what the awaited convertTranscriptToHinglish(full) does: it resolves with a
\* string, or it rejects
ConversionOutcomes ==
    { [kind |-> "ok", transcript |-> "You: namaste"],
      [kind |-> "ok", transcript |-> ""],
      [kind |-> "throw", transcript |-> ""] }

\* !hinglishTranscript: null and '' are falsy
NotCached(cached) == cached = None \/ cached[1] = ""

\* the effect on [currentLanguageCode, conversationHistory]: the state it leaves
TranscriptEffect(languageCode, history, mode, cached) ==
    IF languageCode # "hi" THEN [displayMode |-> "devanagari", hinglishTranscript |-> None]
    ELSE IF history # <<>> THEN [displayMode |-> "devanagari", hinglishTranscript |-> cached]
    ELSE [displayMode |-> mode, hinglishTranscript |-> cached]

\* mutant: the catch block does not return, the handler goes on to switch the mode
ModeAfterFailureSwitched(mode) == "hinglish"

\* catch (err): return, stay in Devanagari on failure
ModeAfterFailure(mode) == mode

\* the results page mounts: it loads the conversation, then its effects run
mountResults ==
    /\ caller = "resultsPage"
    /\ ~mounted
    /\ mounted' = TRUE
    /\ conversationHistory' = IF session # None THEN session[1] ELSE <<>>
    /\ LET e == TranscriptEffect(i18nLanguage, conversationHistory', displayMode, hinglishTranscript)
       IN /\ displayMode' = e.displayMode
          /\ hinglishTranscript' = e.hinglishTranscript
    /\ UNCHANGED <<isTranslating, conversion, session, pending, sends,
                   isLoading, isRecording, timers, inflight, instance,
                   host, env, caller, serverVars, hinglishVars, overlapVars, formVars>>

\* the toggle button: shown in Hindi when there is a conversation, disabled
\* while isTranslating; up to the await of the conversion, or to the end
handleToggleTranscript ==
    /\ caller = "resultsPage"
    /\ mounted
    /\ i18nLanguage = "hi" /\ conversationHistory # <<>> /\ ~isTranslating
    /\ IF displayMode = "devanagari"
       THEN IF NotCached(hinglishTranscript)
            THEN /\ isTranslating' = TRUE
                 /\ conversion' = "running"
                 /\ UNCHANGED displayMode
            ELSE /\ displayMode' = "hinglish"
                 /\ UNCHANGED <<isTranslating, conversion>>
       ELSE /\ displayMode' = "devanagari"
            /\ UNCHANGED <<isTranslating, conversion>>
    /\ UNCHANGED <<hinglishTranscript, clientVars, screenVars,
                   host, env, caller, serverVars, hinglishVars, overlapVars, formVars>>

\* the awaited conversion settles: handleToggleTranscript resumes
conversionSettles ==
    /\ caller = "resultsPage"
    /\ conversion = "running"
    /\ \E o \in ConversionOutcomes :
         IF o.kind = "ok"
         THEN /\ hinglishTranscript' = Some(o.transcript)
              /\ displayMode' = "hinglish"
              /\ conversion' = "done"
         ELSE /\ displayMode' = ModeAfterFailure(displayMode)
              /\ conversion' = "failed"
              /\ UNCHANGED hinglishTranscript
    /\ isTranslating' = FALSE
    /\ UNCHANGED <<clientVars, screenVars,
                   host, env, caller, serverVars, hinglishVars, overlapVars, formVars>>

\* the language of the application changes while the page is shown: its effect runs
languageChanges ==
    /\ caller = "resultsPage"
    /\ mounted
    /\ \E code \in {"en", "hi"} \ {i18nLanguage} :
         /\ i18nLanguage' = code
         /\ LET e == TranscriptEffect(code, conversationHistory, displayMode, hinglishTranscript)
            IN /\ displayMode' = e.displayMode
               /\ hinglishTranscript' = e.hinglishTranscript
    /\ UNCHANGED <<isTranslating, conversion, clientVars, screenVars,
                   route, assessment, storeCalls, currentQuestion, selectedAnswer, otherText,
                   jenniferLanguage,
                   host, env, caller, serverVars, hinglishVars, overlapVars>>

-----------------------------------------------------------------------------
(* Specification *)

\* the runs in which no request reaches a server: the deployment does not matter
ClientOnly == {"screen", "form", "resultsPage"}

Init ==
    /\ caller \in {"http", "browser", "results", "concurrent", "screen", "form", "resultsPage"}
    /\ host \in IF caller \in ClientOnly THEN {"serverless"} ELSE Hosts
    /\ env \in IF caller \in ClientOnly
               THEN {[ELEVENLABS_API_KEY |-> TRUE, ELEVENLABS2_API_KEY |-> TRUE]}
               ELSE [ELEVENLABS_API_KEY : BOOLEAN, ELEVENLABS2_API_KEY : BOOLEAN]
    /\ req = None
    /\ pc = "idle"
    /\ aiText = <<>>
    /\ calls = <<>>
    /\ res = <<>>
    /\ conversationHistory = <<>>
    /\ session \in IF caller \in {"browser", "screen", "resultsPage"}
                   THEN {None} \cup {Some(h) : h \in StoredConversations}
                   ELSE {None}
    /\ pending = None
    /\ sends = 0
    /\ fullTranscript = None
    /\ hpc = "idle"
    /\ hinglishCalls = <<>>
    /\ hinglishResult = None
    /\ handlers = [r \in HandlerIds |-> IdleHandler]
    /\ testMp3 = None
    /\ mounted = FALSE
    /\ isLoading = FALSE
    /\ isRecording = FALSE
    /\ timers = <<>>
    /\ inflight = <<>>
    /\ instance = 0
    /\ route = "none"
    /\ assessment = <<>>
    /\ storeCalls = <<>>
    /\ currentQuestion = 0
    /\ selectedAnswer = ""
    /\ otherText = <<>>
    /\ i18nLanguage \in IF caller = "resultsPage" THEN {"en", "hi"} ELSE {"en"}
    /\ jenniferLanguage = None
    /\ displayMode = "devanagari"
    /\ hinglishTranscript = None
    /\ isTranslating = FALSE
    /\ conversion = "none"

Next ==
    \/ DirectRequest
    \/ ExpressChat
    \/ ServerlessChat
    \/ callOpenAIChat
    \/ generateTTSHume
    \/ callElevenPrimary
    \/ callElevenSecondary
    \/ mountChat
    \/ sendMessage
    \/ chatResponse
    \/ convertHindiToHinglish
    \/ hinglishFetch
    \/ overlappingRequest
    \/ overlappingStep
    \/ mountScreen
    \/ startRecording
    \/ stopRecording
    \/ timerFires
    \/ responseArrives
    \/ handleEndCall
    \/ handleDeleteAndReset
    \/ mountForm
    \/ handleAnswerSelect
    \/ handleOtherTextChange
    \/ handleCountrySelect
    \/ handleNext
    \/ mountResults
    \/ handleToggleTranscript
    \/ conversionSettles
    \/ languageChanges

Spec == Init /\ [][Next]_vars

\* the steps of the handler: an await resumes once the upstream call has returned
HandlerStep ==
    \/ ExpressChat
    \/ ServerlessChat
    \/ callOpenAIChat
    \/ generateTTSHume
    \/ callElevenPrimary
    \/ callElevenSecondary

FairSpec == Spec /\ WF_vars(HandlerStep)

-----------------------------------------------------------------------------
(* Vocabulary of the properties *)

Done == pc = "done"

\* the response of the finished request
Response == res[1]

Succeeded == Done /\ Response.status = 200

CallsWith(key) == {i \in DOMAIN calls : calls[i].key = key}

CallsTo(api) == {i \in DOMAIN calls : calls[i].api = api}

\* the credential was used for a fetch (callEleven did not return undefined)
Fetched(i) == calls[i].outcome # "undefined"

\* the direct backend's attempt with the primary credential did not yield a usable response
PrimaryFailed ==
    \E i \in CallsWith("ELEVENLABS_API_KEY") : calls[i].outcome # "ok"

-----------------------------------------------------------------------------
(* C1: when the direct backend's primary-credential call fails, the       *)
(* secondary credential is attempted exactly once before the request is    *)
(* reported as failed. Stated for its plainest case: both credentials are  *)
(* configured and the primary call came back with a non-success status.    *)
C1_SecondaryAttemptedOnce ==
    ( /\ Done
      /\ env.ELEVENLABS_API_KEY /\ env.ELEVENLABS2_API_KEY
      /\ \E i \in CallsWith("ELEVENLABS_API_KEY") : calls[i].outcome = "error" )
    => /\ Cardinality(CallsWith("ELEVENLABS2_API_KEY")) = 1
       /\ \A j \in CallsWith("ELEVENLABS2_API_KEY") : Fetched(j)

-----------------------------------------------------------------------------
\* the history turns of a posted messages array: what lies after the system
\* message and, where callOpenAIChat appends the user prompt, before it
ForwardedHistory(messages) ==
    IF host = "express" THEN SubSeq(messages, 2, Len(messages) - 1)
    ELSE SubSeq(messages, 2, Len(messages))

\* the ConversationHistory of the request, [] when the field is absent
RequestHistory ==
    IF params.ConversationHistory = None THEN <<>> ELSE params.ConversationHistory[1]

Min(a, b) == IF a <= b THEN a ELSE b

\* the last min(Len(h), k) turns of h, reduced to role and content
LastTurns(h, k) ==
    LET n == Len(h)
        m == Min(n, k)
    IN [i \in 1..m |-> [role |-> h[n - m + i].role, content |-> h[n - m + i].content]]

(* C3 as stated: for a request with FirstMessage=false and a               *)
(* ConversationHistory of length n, the server forwards exactly the last   *)
(* min(n,5) turns to the chat-completion call.                             *)
C3_ServerForwardsLastFive ==
    (req # None /\ params.FirstMessage = Some(FALSE)) =>
        \A i \in CallsTo("openai") :
            ForwardedHistory(calls[i].payload) = LastTurns(RequestHistory, 5)

(* C3, amended: the server forwards the request's ConversationHistory      *)
(* whole and in order, whatever its length; the window of 5 is cut by the  *)
(* chat screen: a request sent by sendMessage with a conversation of       *)
(* length n (the new user turn included) carries, and the server forwards, *)
(* exactly the last min(n,5) turns in their original order.                *)
C3_WindowCutByChatScreen ==
    \A i \in CallsTo("openai") :
        /\ ForwardedHistory(calls[i].payload) = LastTurns(RequestHistory, Len(RequestHistory))
        /\ (caller = "browser" /\ pending # None) =>
              ForwardedHistory(calls[i].payload) = LastTurns(pending[1].updatedHistory, 5)

\* the chat screen sent a conversation of more than 5 turns and the server has
\* posted its window to the chat-completion provider
C3_Witness ==
    /\ caller = "browser" /\ pending # None
    /\ Len(pending[1].updatedHistory) > 5
    /\ CallsTo("openai") # {}
    /\ \A i \in CallsTo("openai") : Len(ForwardedHistory(calls[i].payload)) = 5

(* C4: a request with FirstMessage=true never calls the chat-completion    *)
(* provider; the only upstream calls on that path are speech-synthesis     *)
(* calls, and they synthesize the templated greeting.                      *)
C4_FirstMessageNeverCallsChat ==
    (req # None /\ params.FirstMessage = Some(TRUE)) =>
        \A i \in DOMAIN calls :
            /\ calls[i].api \in {"hume", "elevenlabs"}
            /\ calls[i].payload = aiText
            /\ aiText = firstMessageTemplate(host, OrElse(params.language, "english"),
                                              Feeling(params))

\* a first-message request answered with the synthesized greeting
C4_Witness ==
    /\ req # None /\ params.FirstMessage = Some(TRUE)
    /\ Succeeded
    /\ calls # <<>>

(* C5: POST /api/chat with a body that lacks FirstMessage returns HTTP 400 *)
(* with a JSON object containing an error key, in every hosting mode.      *)
C5_MissingFirstMessageIs400 ==
    ( /\ Done /\ params.method = "POST" /\ params.body
      /\ params.FirstMessage = None /\ params.language # None ) =>
        /\ Response.status = 400
        /\ "error" \in DOMAIN Response.body

(* C6: a chat request with a required field missing is rejected before any *)
(* network call: neither the chat-completion provider nor a speech         *)
(* backend is called for it.                                               *)
C6_InvalidRequestMakesNoCall ==
    (req # None /\ params.FirstMessage = None) => calls = <<>>

-----------------------------------------------------------------------------
\* the system prompt and the user prompt the handler passes to callOpenAIChat
RequestSystemPrompt ==
    buildSystemPrompt(host, params.language[1],
                      IF params.assessment_question_answers = None THEN <<>>
                      ELSE params.assessment_question_answers[1])

(* C7: the message list posted to the chat-completion provider is the      *)
(* system message, then every forwarded history turn with its role and     *)
(* content in order, then the new user prompt last; the user prompt is     *)
(* always included.                                                        *)
C7_UserPromptAppendedLast ==
    \A i \in CallsTo("openai") :
        LET m == calls[i].payload
            n == Len(RequestHistory)
        IN /\ Len(m) = n + 2
           /\ m[1] = [role |-> "system", content |-> RequestSystemPrompt]
           /\ \A k \in 1..n : m[k + 1] = [role |-> RequestHistory[k].role,
                                          content |-> RequestHistory[k].content]
           /\ m[Len(m)] = [role |-> "user", content |-> <<UserPrompt(params)>>]

(* C8: speech synthesis is routed by the lower-cased language: english and *)
(* spanish go to the voice-cloning backend and not to the direct one;      *)
(* french, hindi and any unrecognized language go to the direct backend    *)
(* and not to the voice-cloning one.                                       *)
C8_RoutedByLanguage ==
    (req # None /\ params.language # None) =>
        \A i \in CallsTo("hume") \cup CallsTo("elevenlabs") :
            IF toLowerCase(params.language[1]) \in {"english", "spanish"}
            THEN calls[i].api = "hume"
            ELSE calls[i].api = "elevenlabs"

(* C9: no partial response is returned from /api/chat: a response is       *)
(* either a success carrying audioData and text, or an error carrying      *)
(* neither; when speech synthesis fails after a successful chat completion *)
(* the reply text is not in the response.                                  *)
C9_NoPartialResponse ==
    \A k \in DOMAIN res :
        \/ /\ res[k].status = 200
           /\ DOMAIN res[k].body = {"audioData", "text"}
           /\ res[k].body.text = aiText
        \/ /\ res[k].status >= 400
           /\ DOMAIN res[k].body = {"error"}
           /\ \A t \in DOMAIN aiText, e \in DOMAIN res[k].body.error :
                 aiText[t] # res[k].body.error[e]

\* the chat completion succeeded, speech synthesis failed, the request ended in an error
C9_Witness ==
    /\ Done
    /\ \E i \in CallsTo("openai") : calls[i].outcome = "ok"
    /\ aiText # <<>>
    /\ \E i \in CallsTo("hume") \cup CallsTo("elevenlabs") : calls[i].outcome # "ok"
    /\ Response.status = 500

(* C10: in every successful chat response audioData is a non-empty string; *)
(* a synthesis result without audio is reported as an error.               *)
C10_AudioNeverEmpty ==
    Succeeded => Response.body.audioData # ""

-----------------------------------------------------------------------------
(* C11: upstream call counts per chat request are bounded: the             *)
(* chat-completion provider is called at most once and a failed call is    *)
(* not retried (the request ends with it); the voice-cloning backend is    *)
(* called at most once; the direct backend at most twice, at most once per *)
(* credential.                                                             *)
C11_CallCountsBounded ==
    /\ Cardinality(CallsTo("openai")) <= 1
    /\ \A i \in CallsTo("openai") :
          calls[i].outcome # "ok" => Done /\ Len(calls) = i
    /\ Cardinality(CallsTo("hume")) <= 1
    /\ Cardinality(CallsTo("elevenlabs")) <= 2
    /\ \A k \in {"ELEVENLABS_API_KEY", "ELEVENLABS2_API_KEY"} :
          Cardinality(CallsWith(k) \cap CallsTo("elevenlabs")) <= 1

\* a continuing request that used the chat provider once and the direct backend
\* with both credentials, the secondary one failing too
C11_Witness ==
    /\ Done
    /\ Cardinality(CallsTo("openai")) = 1
    /\ Cardinality({i \in CallsTo("elevenlabs") : Fetched(i)}) = 2
    /\ calls[Len(calls)].outcome = "error"
    /\ Response.status = 500

-----------------------------------------------------------------------------
(* C12: the client-visible error of a failed request is a short fixed      *)
(* message that does not depend on what the upstream provider answered:    *)
(* no part of the error string is the body of an upstream error response.  *)
C12_ErrorBodyHidesUpstream ==
    \A k \in DOMAIN res :
        res[k].status >= 400 =>
            \A e \in DOMAIN res[k].body.error :
                res[k].body.error[e] \notin ErrBodies

-----------------------------------------------------------------------------
OtherHost == IF host = "express" THEN "serverless" ELSE "express"

\* the upstream call hosting mode h makes for the request where this one made calls[i]
CallOf(h, i) ==
    IF calls[i].api = "openai"
    THEN [api |-> "openai",
          payload |-> Messages(h, buildSystemPrompt(h, params.language[1],
                                      IF params.assessment_question_answers = None THEN <<>>
                                      ELSE params.assessment_question_answers[1]),
                               UserPrompt(params), params.ConversationHistory)]
    ELSE [api |-> IF UsesHume(h, TTSLanguage(h, params)) THEN "hume" ELSE "elevenlabs",
          payload |-> calls[i].payload]

(* C13: the Express route and the serverless handler expose the identical  *)
(* contract: a request that one of them answers before any upstream call   *)
(* gets the same response from the other, a request for which one of them  *)
(* makes upstream calls is not answered early by the other, and each       *)
(* upstream call one makes (provider and payload) is the call the other    *)
(* makes at that step. Stated for POST requests with a JSON body that      *)
(* carries a language.                                                     *)
C13_HostsExposeSameContract ==
    (Done /\ params.method = "POST" /\ params.body /\ params.language # None) =>
        /\ calls = <<>> => EarlyResponse(OtherHost, params) = Some(Response)
        /\ calls # <<>> => EarlyResponse(OtherHost, params) = None
        /\ \A i \in DOMAIN calls :
              [api |-> calls[i].api, payload |-> calls[i].payload] = CallOf(OtherHost, i)

\* the handler's early responses are the ones EarlyResponse gives for its own host
EarlyResponseIsHandlers ==
    Done => /\ calls = <<>> => EarlyResponse(host, params) = Some(Response)
            /\ calls # <<>> => EarlyResponse(host, params) = None

-----------------------------------------------------------------------------
\* a request has been received and the handler has not returned yet
InFlight == pc \in {"received", "openai", "tts", "eleven2"}

(* C14: each chat request ends in exactly one response: while the handler  *)
(* runs no response has been sent, once every upstream call has returned   *)
(* the handler finishes, it has then sent exactly one response, and until  *)
(* a new request arrives nothing more is sent and no further upstream call *)
(* is made.                                                                *)
C14_ExactlyOneResponse ==
    /\ [](InFlight => res = <<>>)
    /\ [](Done => Len(res) = 1)
    /\ [][Done => (pc' = "received" \/ (calls' = calls /\ res' = res))]_vars
    /\ (InFlight ~> Done)

\* a request that went through three upstream calls and was answered once
C14_Witness ==
    /\ Done
    /\ Len(calls) = 3
    /\ Len(res) = 1

-----------------------------------------------------------------------------
SupportedLanguages == {"english", "spanish", "french", "hindi"}

\* the assessments argument of buildSystemPrompt: params.assessment_question_answers || []
RequestAssessments ==
    IF params.assessment_question_answers = None THEN <<>>
    ELSE params.assessment_question_answers[1]

(* C15: an unrecognized language value is not an error: for a language     *)
(* outside {english, spanish, french, hindi} (compared in lower case) the  *)
(* greeting is the English greeting, the system prompt posted to the chat  *)
(* provider is the English prompt, and the request is not answered before  *)
(* its upstream calls.                                                     *)
C15_UnrecognizedFallsBackToEnglish ==
    ( /\ req # None /\ params.method = "POST" /\ params.FirstMessage # None
      /\ params.language # None
      /\ toLowerCase(params.language[1]) \notin SupportedLanguages ) =>
        /\ (IsFirstMessage(params) /\ pc # "received") =>
              aiText = firstMessageTemplate(host, "English", Feeling(params))
        /\ \A i \in CallsTo("openai") :
              calls[i].payload[1].content =
                  buildSystemPrompt(host, "English", RequestAssessments)
        /\ Done => calls # <<>>

-----------------------------------------------------------------------------
(* C16: on the first-message path the feeling interpolated into the        *)
(* greeting is the answer at the second position of the assessment list,   *)
(* and it is "neutral" when the list is absent, has fewer than two         *)
(* entries, or has an empty answer there; none of these cases is an        *)
(* error: the handler goes on to synthesize the greeting. Stated for the   *)
(* requests whose language selects a greeting template.                    *)
C16_FeelingDefaultsToNeutral ==
    ( /\ req # None /\ IsFirstMessage(params) /\ pc # "received"
      /\ params.language # None
      /\ toLowerCase(params.language[1]) \notin InheritedKeys ) =>
        LET a == params.assessment_question_answers
            answered == a # None /\ Len(a[1]) >= 2 /\ a[1][2].answer # ""
        IN /\ Len(aiText) = 3
           /\ answered => aiText[2] = a[1][2].answer
           /\ ~answered => aiText[2] = "neutral"
           /\ Done => calls # <<>>

\* a greeting for an assessment list too short to hold the feeling, synthesized and returned
C16_Witness ==
    /\ req # None /\ IsFirstMessage(params)
    /\ params.assessment_question_answers # None
    /\ Len(params.assessment_question_answers[1]) = 1
    /\ Succeeded
    /\ "text" \in DOMAIN Response.body
    /\ Len(Response.body.text) = 3
    /\ Response.body.text[2] = "neutral"

-----------------------------------------------------------------------------
(* C17: convertHindiToHinglish called with an empty or whitespace-only     *)
(* transcript returns the empty string at once and makes no network call.  *)
C17_BlankTranscriptMakesNoCall ==
    ( /\ fullTranscript # None
      /\ \A i \in DOMAIN fullTranscript[1] : fullTranscript[1][i] \in Whitespace ) =>
        /\ hpc = "returned"
        /\ hinglishResult = Some(<<>>)
        /\ hinglishCalls = <<>>

\* a transcript of white space only was answered with the empty string
C17_Witness ==
    /\ fullTranscript # None
    /\ Len(fullTranscript[1]) = MaxChars
    /\ \A i \in DOMAIN fullTranscript[1] : fullTranscript[1][i] \in Whitespace
    /\ hpc = "returned"
    /\ hinglishCalls = <<>>

-----------------------------------------------------------------------------
(* C18: for every supported language and every list of assessment answers  *)
(* the system prompt holds exactly one line per answer, "- " question ": " *)
(* answer, in the order of the list, the lines separated by line breaks,   *)
(* placed right after the assessment header (instructionsIntro and a line  *)
(* break) and right before the behavioural-constraints block (a blank line *)
(* and importantNote), which ends the prompt.                              *)
C18_OneLinePerAnswerInOrder ==
    ( /\ req # None /\ params.language # None
      /\ toLowerCase(params.language[1]) \in SupportedLanguages ) =>
        \A i \in CallsTo("openai") :
            LET prompt == calls[i].payload[1].content
                content == Prompts(host)[toLowerCase(params.language[1])]
                a == RequestAssessments
                n == Len(a)
                last == 6 + (IF n = 0 THEN 0 ELSE 5 * n - 1)
            IN /\ prompt[5] = content.instructionsIntro
               /\ prompt[6] = "\n"
               /\ \A k \in 1..n :
                     /\ prompt[5 * k + 2] = "- "
                     /\ prompt[5 * k + 3] = a[k].question
                     /\ prompt[5 * k + 4] = ": "
                     /\ prompt[5 * k + 5] = a[k].answer
                     /\ k < n => prompt[5 * k + 6] = "\n"
               /\ Cardinality({j \in DOMAIN prompt : prompt[j] = "- "}) = n
               /\ Len(prompt) = last + 2
               /\ prompt[last + 1] = "\n\n"
               /\ prompt[last + 2] = content.importantNote

\* a prompt with two assessment lines was posted to the chat provider
C18_Witness ==
    /\ req # None /\ params.language # None
    /\ toLowerCase(params.language[1]) \in SupportedLanguages
    /\ Len(RequestAssessments) = 2
    /\ RequestAssessments[1].question # RequestAssessments[2].question
    /\ CallsTo("openai") # {}

-----------------------------------------------------------------------------
SynthesisCalls == CallsTo("hume") \cup CallsTo("elevenlabs")

(* C19: on the continuing path the steps run strictly in sequence: speech  *)
(* synthesis is started only after the chat-completion call has returned   *)
(* successfully, the text it is given is the reply of that call, which is  *)
(* the text of a successful response, and when the chat-completion call    *)
(* fails no speech-synthesis call is made.                                 *)
C19_SynthesisAfterChatCompletion ==
    (req # None /\ ~IsFirstMessage(params)) =>
        /\ (pc \in {"tts", "eleven2"} \/ SynthesisCalls # {}) =>
              /\ calls # <<>>
              /\ calls[1].api = "openai"
              /\ calls[1].outcome = "ok"
              /\ aiText = ReplyText(host, calls[1].body)
        /\ \A i \in SynthesisCalls :
              /\ i > 1
              /\ calls[i].payload = ReplyText(host, calls[1].body)
              /\ Succeeded => Response.body.text = calls[i].payload
        /\ (\E j \in CallsTo("openai") : calls[j].outcome # "ok") => SynthesisCalls = {}

\* a continuing request answered with the synthesized reply of the chat provider
C19_Witness ==
    /\ req # None /\ ~IsFirstMessage(params)
    /\ Succeeded
    /\ Len(calls) >= 2
    /\ calls[1].api = "openai"
    /\ Response.body.text = <<calls[1].body>>
    /\ calls[1].body # ""

-----------------------------------------------------------------------------
\* the last upstream call was a synthesis call that came back with audio
SynthesisReturnedAudio ==
    /\ calls # <<>>
    /\ Len(calls) \in SynthesisCalls
    /\ calls[Len(calls)].outcome = "ok"
    /\ calls[Len(calls)].api = "hume" => calls[Len(calls)].body # ""

(* C20: writing the debug copy of the synthesized clip is never on the     *)
(* success/failure path: once the synthesis backend has returned audio,    *)
(* generateTTS returns it and the chat request succeeds, whether or not    *)
(* the debug file could be written.                                        *)
C20_DebugWriteNeverFailsRequest ==
    (Done /\ SynthesisReturnedAudio) => Response.status = 200

-----------------------------------------------------------------------------
(* C21: when the chat provider answers with success but no content, the    *)
(* conversational path goes on with a non-empty fallback reply, which is   *)
(* synthesized and returned as text, and the transcript conversion returns *)
(* the empty string; neither path fails on the empty content.              *)
C21_EmptyContentFallback ==
    /\ (req # None /\ ~IsFirstMessage(params)) =>
          \A i \in CallsTo("openai") :
              (calls[i].outcome = "ok" /\ calls[i].body = "") =>
                  /\ aiText # <<>>
                  /\ \A j \in SynthesisCalls : calls[j].payload = aiText
                  /\ Succeeded => Response.body.text = aiText
                  /\ Done => SynthesisCalls # {}
    /\ \A i \in DOMAIN hinglishCalls :
          (hinglishCalls[i].outcome = "ok" /\ hinglishCalls[i].body = <<>>) =>
              hpc = "returned" /\ hinglishResult = Some(<<>>)

-----------------------------------------------------------------------------
\* the text a request is answered with, from its own input and its own chat completion
OwnText(l) ==
    IF IsFirstMessage(l.req[1])
    THEN firstMessageTemplate(host, OrElse(l.req[1].language, "english"), Feeling(l.req[1]))
    ELSE ReplyText(host, l.calls[1].body)

\* the audio a request is answered with, from its own last synthesis call
OwnAudio(l) ==
    LET last == l.calls[Len(l.calls)] IN
    IF last.api = "hume" THEN last.body ELSE Base64(last.body)

(* C22: requests are handled independently: whatever the interleaving of   *)
(* two overlapping chat requests, the text each handler synthesizes and    *)
(* returns comes from its own request and its own chat completion, the     *)
(* audio it returns is the audio of its own last synthesis call, and an    *)
(* error it returns is its own early response or carries the result of its *)
(* own last upstream call or of its own debug write.                       *)
C22_RequestsAreIndependent ==
    \A r \in HandlerIds :
        LET l == handlers[r] IN
        /\ \A i \in DOMAIN l.calls :
              l.calls[i].api # "openai" => l.calls[i].payload = OwnText(l)
        /\ (l.pc = "done" /\ l.res[1].status = 200) =>
              /\ l.res[1].body = SuccessBody(OwnAudio(l), OwnText(l))
              /\ l.calls[Len(l.calls)].outcome = "ok"
        /\ (l.pc = "done" /\ l.res[1].status # 200) =>
              LET error == l.res[1].body.error
                  n == Len(error)
              IN \/ l.calls = <<>> /\ Some(l.res[1]) = EarlyResponse(host, l.req[1])
                 \/ l.calls # <<>> /\ l.debugWrite = Some(FALSE)
                 \/ /\ l.calls # <<>> /\ l.debugWrite = None
                    /\ error[n] \in {l.calls[Len(l.calls)].body, "No response",
                                     "Hume TTS: Missing audio in response"}

\* one request has been answered with its own text while the other, a
\* continuing request with another reply, is between its chat completion and
\* its synthesis, and the debug file has been written
C22_Witness ==
    /\ handlers[1].pc = "done" /\ handlers[1].res[1].status = 200
    /\ IsFirstMessage(handlers[1].req[1])
    /\ handlers[2].pc = "tts" /\ handlers[2].calls # <<>>
    /\ handlers[2].aiText # handlers[1].aiText
    /\ testMp3 # None

-----------------------------------------------------------------------------
IsPrefix(a, b) == Len(a) <= Len(b) /\ SubSeq(b, 1, Len(a)) = a

\* the first chat session of the run: no request of an earlier session is involved
OneSession == instance = 1

(* C23: the conversation history kept by the chat screen is appended       *)
(* monotonically within a chat session: whatever the interleaving of       *)
(* sendMessage calls and of                                                *)
(* the arrival of their responses, each step leaves the turns that were in *)
(* the component state, and those in the persisted session copy, in place  *)
(* and only adds turns after them.                                         *)
C23_HistoryAppendedMonotonically ==
    [][ (mounted /\ mounted' /\ OneSession) =>
            /\ IsPrefix(conversationHistory, conversationHistory')
            /\ session # None => (session' # None /\ IsPrefix(session[1], session'[1])) ]_vars

-----------------------------------------------------------------------------
(* Assessment store *)

\* the entry the latest call for the i-th answered question asked to store
Asked(i) ==
    NewEntry(storeCalls[i].questionId, storeCalls[i].rawAnswer, FALSE, storeCalls[i].currentLang)

(* C24: storeAssessmentAnswer is an order-preserving upsert: the stored    *)
(* collection has exactly one entry per answered question, holding the     *)
(* latest answer given to it, and the entries are in the order in which    *)
(* the questions were first answered.                                      *)
C24_OrderPreservingUpsert ==
    /\ Len(assessment) = Len(storeCalls)
    /\ \A i \in DOMAIN assessment : assessment[i] = Asked(i)
    /\ \A i, j \in DOMAIN assessment : i # j => assessment[i].questionId # assessment[j].questionId

\* the language was answered again (in English, as "French") after the
\* feeling had been answered in English
C24_Witness ==
    /\ route = "assessment"
    /\ Len(assessment) = 2
    /\ assessment[1].questionId = 1 /\ assessment[1].answer = "French"
    /\ assessment[2].questionId = 2 /\ assessment[2].answer = "Calm"

(* C25: when the assessment form has navigated to the chat, the stored     *)
(* assessment has the answer to question 2 ("How are you feeling today?")  *)
(* at index 1, so the feeling the greeting interpolates is the latest      *)
(* answer the user gave to that question.                                  *)
C25_FeelingAnswerAtIndexOne ==
    (caller = "form" /\ route = "chat") =>
        /\ Len(assessment) >= 2
        /\ assessment[2].questionId = 2
        /\ \E i \in DOMAIN storeCalls :
             /\ storeCalls[i].questionId = 2
             /\ Feeling([assessment_question_answers |-> Some(assessment)]) = Asked(i).answer

\* the form was completed with a typed feeling, after the language had been
\* answered a second time on a later visit of the form
C25_Witness ==
    /\ caller = "form" /\ route = "chat"
    /\ Len(assessment) = Len(assessmentQuestions)
    /\ assessment[1].answer = "French"
    /\ assessment[2].answer = "lonely"
    /\ assessment[Len(assessment)].answer = "United States"

-----------------------------------------------------------------------------
(* The latest utterance, end to end *)

\* the positions of the message list at which the utterance of this request stands
UtterancePositions(messages) ==
    {j \in DOMAIN messages : /\ messages[j].role = "user"
                             /\ messages[j].content = <<params.Transcript[1]>>}

(* C26: end to end, the utterance the chat screen sends with sendMessage   *)
(* (last turn of ConversationHistory, and Transcript) stands exactly once  *)
(* in the message list posted to the chat model.                           *)
C26_LatestUtteranceSentOnce ==
    ( /\ caller = "browser" /\ req # None
      /\ params.FirstMessage = Some(FALSE) ) =>
        \A i \in DOMAIN calls :
            calls[i].api = "openai" => Cardinality(UtterancePositions(calls[i].payload)) = 1

-----------------------------------------------------------------------------
(* Failed requests on the chat screen *)

\* the turn was loaded from sessionStorage when the screen mounted
WasStored(turn) == \E h \in StoredConversations : \E i \in DOMAIN h : h[i] = turn

\* the turn holds the text and the audio of the 200 response to this request
FromServer(turn) ==
    /\ Len(res) >= 1 /\ res[1].status = 200
    /\ "text" \in DOMAIN res[1].body
    /\ turn.content = res[1].body.text
    /\ turn.audioData = res[1].body.audioData

(* C27: when POST /api/chat fails the chat screen adds no assistant turn   *)
(* and persists nothing new: every assistant turn of the conversation      *)
(* history and of the stored conversation was stored before, or carries    *)
(* the text and audio of the server's 200 response.                        *)
C27_NoAssistantTurnOnFailure ==
    caller = "browser" =>
        /\ \A i \in DOMAIN conversationHistory :
              conversationHistory[i].role = "assistant" =>
                  WasStored(conversationHistory[i]) \/ FromServer(conversationHistory[i])
        /\ session # None =>
              \A i \in DOMAIN session[1] :
                  session[1][i].role = "assistant" =>
                      WasStored(session[1][i]) \/ FromServer(session[1][i])

-----------------------------------------------------------------------------
(* Requests without a language *)

\* the handler answered with the TypeError of reading toLowerCase of undefined
FailedOnMissingLanguage ==
    \E i \in DOMAIN res : res[i].status = 500 /\ res[i].body = [error |-> TypeErrorMessage]

(* C28: a chat request without a language field is treated as English,    *)
(* with FirstMessage true and with FirstMessage false: the handler does    *)
(* not fail because the field is missing, the greeting is the English one, *)
(* the system prompt is the English one and speech is synthesized for      *)
(* english.                                                                *)
C28_MissingLanguageIsEnglish ==
    ( /\ req # None /\ params.method = "POST" /\ params.FirstMessage # None
      /\ params.language = None ) =>
        /\ ~FailedOnMissingLanguage
        /\ (IsFirstMessage(params) /\ pc # "received") =>
               aiText = firstMessageTemplate(host, "english", Feeling(params))
        /\ \A i \in DOMAIN calls :
               calls[i].api = "openai" =>
                   calls[i].payload[1].content = buildSystemPrompt(host, "english", RequestAssessments)

-----------------------------------------------------------------------------
(* First-message requests of the chat screen *)

\* this step mounts the chat screen
Mounts == ~mounted /\ mounted'

\* this step issues a request, and the request has FirstMessage = first
IssuesRequest(first) ==
    /\ Len(inflight') = Len(inflight) + 1
    /\ inflight'[Len(inflight')].first = first

-----------------------------------------------------------------------------
(* Transcript toggle *)

(* C30: on the results page the display mode is 'hinglish' only if a       *)
(* transliteration result has been stored; a conversion that fails leaves  *)
(* the mode 'devanagari'; isTranslating is false whenever no conversion is *)
(* awaited; and a conversion is only started from the Devanagari view, so  *)
(* toggling back to Devanagari makes no request.                           *)
C30_HinglishOnlyWithResult ==
    [][ /\ displayMode' = "hinglish" => hinglishTranscript' # None
        /\ (conversion = "running" /\ conversion' = "failed") => displayMode' = "devanagari"
        /\ conversion' # "running" => ~isTranslating'
        /\ (conversion # "running" /\ conversion' = "running") =>
               (displayMode = "devanagari" /\ displayMode' = "devanagari")
        /\ (displayMode = "hinglish" /\ displayMode' = "devanagari") =>
               conversion' = conversion ]_vars

\* a conversion was asked for and failed: the view is still Devanagari, nothing
\* is stored and the button is enabled again
C30_Witness ==
    /\ mounted /\ i18nLanguage = "hi"
    /\ conversion = "failed"
    /\ displayMode = "devanagari"
    /\ hinglishTranscript = None
    /\ ~isTranslating

====
